---- MODULE Spec2Model ----
(***************************************************************************)
(* A model of KimikoCore (src/kimiko_core.py): the short/long-term memory  *)
(* store, the per-token mention counter, the per-mode conversation         *)
(* histories, the send pipeline and the command interpreter.               *)
(*                                                                         *)
(* Strings are sequences of one-character strings.  A message content is   *)
(* such a sequence too, in which a literal of the source that no claim     *)
(* looks into (a persona preamble, the "Memory context:" prefix) stands as *)
(* one element.                                                            *)
(*                                                                         *)
(* The desktop front-end (src/kimiko_desktop.py) is modelled as far as it  *)
(* drives the core: the Tk thread that runs on_submit, the menu callbacks  *)
(* and the timers, and the worker threads that run _get_reply.             *)
(***************************************************************************)
EXTENDS Integers, Sequences, FiniteSets, TLC

\* the clock, the fields of the KimikoCore and the latest call made on it
VARIABLES now, memory, file, word_counts, current_mode, conversations, last

\* the memory of a second core, one that promotes a token once only
VARIABLES shadow

\* the desktop: its worker threads, the fields of KimikoDesktop, the
\* _stop_talking callbacks that root.after has pending, and the list object
\* each mode's history is
VARIABLES threads, response_queue, dialog_label, is_talking, stop_timers, lists

desktop == <<threads, response_queue, dialog_label, is_talking, stop_timers, lists>>

vars == <<now, memory, file, word_counts, current_mode, conversations, last,
          shadow, threads, response_queue, dialog_label, is_talking,
          stop_timers, lists>>

(***************************************************************************)
(* Bounds of the model.                                                    *)
(***************************************************************************)
\* the clock runs from 0 to MaxNow
MaxNow == 1
\* add_memory and send are not offered once log holds MaxLog entries
MaxLog == 1
\* send is not offered when it would take a token's count above MaxCount
MaxCount == 2
\* send is not offered when the histories hold more than MaxMsgs messages
\* (the three persona preambles and the two messages a failed send leaves)
MaxMsgs == 5
\* recall_context is invoked with max_recent, max_perma in 0..MaxRecallArg
MaxRecallArg == 1
\* max_history_window is configured in 0..MaxWindow
MaxWindow == 3

(***************************************************************************)
(* KimikoConfig, scaled: the instance under check is configured with these *)
(* values (the defaults of the dataclass are 420, 4 and 20).               *)
(***************************************************************************)
short_term_lifetime == 1
promotion_threshold == 2
max_history_window == 2
\* similarity_threshold = 0.78, as the fraction SimNum / SimDen
SimNum == 78
SimDen == 100
\* the defaults of recall_context(max_recent=5, max_perma=10)
DefaultMaxRecent == 5
DefaultMaxPerma == 10

(***************************************************************************)
(* Strings.                                                                *)
(***************************************************************************)
LowerChar(c) ==
    CASE c = "H" -> "h" [] c = "W" -> "w" [] c = "O" -> "o"
      [] c = "R" -> "r" [] c = "K" -> "k" [] c = "S" -> "s"
      [] OTHER -> c

\* str.lower()
Lower(s) == [i \in 1..Len(s) |-> LowerChar(s[i])]

IsSpace(c) == c \in {" ", "\n", "\t"}

\* \w of the regular expression: letters, digits and the underscore
IsWordChar(c) == ~IsSpace(c) /\ c \notin {"/", "!", "'", ".", "?", ",", "(", ")", ":"}

RECURSIVE LStrip(_)
LStrip(s) == IF s # <<>> /\ IsSpace(Head(s)) THEN LStrip(Tail(s)) ELSE s

RECURSIVE RStrip(_)
RStrip(s) ==
    IF s # <<>> /\ IsSpace(s[Len(s)]) THEN RStrip(SubSeq(s, 1, Len(s) - 1)) ELSE s

\* str.strip()
Strip(s) == RStrip(LStrip(s))

\* the longest prefix of s whose characters all have IsWordChar(c) = word
RECURSIVE Run(_, _)
Run(s, word) ==
    IF s # <<>> /\ IsWordChar(Head(s)) = word
    THEN <<Head(s)>> \o Run(Tail(s), word)
    ELSE <<>>

RECURSIVE Tokens(_)
Tokens(s) ==
    IF s = <<>> THEN <<>>
    ELSE IF IsWordChar(Head(s))
         THEN LET w == Run(s, TRUE)
              IN  <<w>> \o Tokens(SubSeq(s, Len(w) + 1, Len(s)))
         ELSE Tokens(Tail(s))

\* KimikoCore.normalize: re.findall(r"\b\w+\b", text.lower())
normalize(text) == Tokens(Lower(text))

RECURSIVE NonSpacePrefix(_)
NonSpacePrefix(s) ==
    IF s # <<>> /\ ~IsSpace(Head(s))
    THEN <<Head(s)>> \o NonSpacePrefix(Tail(s))
    ELSE <<>>

\* str.split(maxsplit=1): at most two parts, the second kept as it is but
\* for its leading white space
SplitOnce(s) ==
    LET t == LStrip(s)
        first == NonSpacePrefix(t)
        rest == LStrip(SubSeq(t, Len(first) + 1, Len(t)))
    IN  IF t = <<>> THEN <<>>
        ELSE IF rest = <<>> THEN <<first>>
        ELSE <<first, rest>>

\* "\n".join(lines)
RECURSIVE JoinLines(_)
JoinLines(lines) ==
    IF lines = <<>> THEN <<>>
    ELSE IF Len(lines) = 1 THEN lines[1]
    ELSE lines[1] \o <<"\n">> \o JoinLines(Tail(lines))

(***************************************************************************)
(* difflib.SequenceMatcher(None, a, b).ratio(), for strings shorter than   *)
(* the 200 characters at which the autojunk heuristic starts.              *)
(***************************************************************************)
\* a[i+1 .. i+k] = b[j+1 .. j+k]   (i, j are 0-based offsets as in difflib)
BlockAt(a, b, i, j, k) == \A d \in 1..k : a[i + d] = b[j + d]

\* find_longest_match(alo, ahi, blo, bhi): the longest block, of those the
\* one starting earliest in a, of those the one starting earliest in b
Blocks(a, b, alo, ahi, blo, bhi) ==
    { t \in (alo..(ahi - 1)) \X (blo..(bhi - 1)) \X (1..(ahi - alo)) :
        /\ t[1] + t[3] <= ahi
        /\ t[2] + t[3] <= bhi
        /\ BlockAt(a, b, t[1], t[2], t[3]) }

find_longest_match(a, b, alo, ahi, blo, bhi) ==
    LET S == Blocks(a, b, alo, ahi, blo, bhi)
    IN  IF S = {} THEN <<alo, blo, 0>>
        ELSE CHOOSE t \in S :
               \A u \in S :
                  \/ t[3] > u[3]
                  \/ t[3] = u[3] /\ t[1] < u[1]
                  \/ t[3] = u[3] /\ t[1] = u[1] /\ t[2] <= u[2]

\* the sum of the sizes of get_matching_blocks()
RECURSIVE MatchCount(_, _, _, _, _, _)
MatchCount(a, b, alo, ahi, blo, bhi) ==
    IF alo >= ahi \/ blo >= bhi THEN 0
    ELSE LET m == find_longest_match(a, b, alo, ahi, blo, bhi)
         IN  IF m[3] = 0 THEN 0
             ELSE m[3]
                  + MatchCount(a, b, alo, m[1], blo, m[2])
                  + MatchCount(a, b, m[1] + m[3], ahi, m[2] + m[3], bhi)

\* ratio() >= similarity_threshold, where ratio() is
\* 2.0 * matches / (len(a) + len(b)), and 1.0 for two empty strings
RatioReaches(a, b) ==
    IF Len(a) + Len(b) = 0 THEN TRUE
    ELSE 2 * MatchCount(a, b, 0, Len(a), 0, Len(b)) * SimDen >= SimNum * (Len(a) + Len(b))

\* the words of the inputs of the model, and RatioReaches on them, computed
\* once
KnownWords ==
    {<<"h", "i", "k", "e">>, <<"h", "i", "k", "e", "s">>, <<"t", "e", "a">>}

RatioTable == [p \in KnownWords \X KnownWords |-> RatioReaches(p[1], p[2])]

\* KimikoCore.similar
similar(a, b) ==
    IF a \in KnownWords /\ b \in KnownWords THEN RatioTable[<<a, b>>]
    ELSE RatioReaches(a, b)

\* KimikoCore.related_to
related_to(word, text) ==
    LET tokens == normalize(text)
    IN  \E i \in 1..Len(tokens) : tokens[i] = word \/ similar(tokens[i], word)

(***************************************************************************)
(* Python values.                                                          *)
(***************************************************************************)
\* None, as a value no string of characters equals
PyNone == <<"<None>">>

\* seq[-n:] for n >= 0: the last n elements, and the whole of seq for n = 0
\* (seq[-0:] is seq[0:])
LastN(seq, n) ==
    IF n = 0 \/ n >= Len(seq) THEN seq
    ELSE SubSeq(seq, Len(seq) - n + 1, Len(seq))

\* x in seq, by structural equality
In(x, seq) == \E i \in 1..Len(seq) : seq[i] = x

(***************************************************************************)
(* The configured modes and their persona preambles.                       *)
(***************************************************************************)
ROLE_CONTEXTS ==
    [work |-> <<"You are Kimiko in Work Mode.">>,
     therapy |-> <<"You are Kimiko in Reflection Mode.">>,
     companion |-> <<"You are Kimiko in Companion Mode.">>]

\* a mode name as a string of characters, and back
ModeChars ==
    [work |-> <<"w", "o", "r", "k">>,
     therapy |-> <<"t", "h", "e", "r", "a", "p", "y">>,
     companion |-> <<"c", "o", "m", "p", "a", "n", "i", "o", "n">>]

Modes == DOMAIN ROLE_CONTEXTS

IsModeName(s) == \E m \in Modes : ModeChars[m] = s

ModeOf(s) == CHOOSE m \in Modes : ModeChars[m] = s

Message(role, content) == [role |-> role, content |-> content]

\* KimikoCore.__post_init__: one persona-seeded history per mode
InitialConversations == [m \in Modes |-> <<Message("system", ROLE_CONTEXTS[m])>>]

(***************************************************************************)
(* JSON.  A decoded value is [t |-> "null"], [t |-> "bool", v |-> a        *)
(* Boolean], [t |-> "num", v |-> the integer part, frac |-> the digits     *)
(* after the point (none for an int)], [t |-> "str", v |-> characters],    *)
(* [t |-> "list", v |-> a sequence of values] or [t |-> "dict", v |-> a    *)
(* sequence of [k |-> characters, val |-> value], in the order of the      *)
(* keys].  A JSON text is a string of characters.                          *)
(***************************************************************************)
S_perma == <<"p", "e", "r", "m", "a">>
S_log == <<"l", "o", "g">>
S_text == <<"t", "e", "x", "t">>
S_timestamp == <<"t", "i", "m", "e", "s", "t", "a", "m", "p">>
S_null == <<"n", "u", "l", "l">>
S_true == <<"t", "r", "u", "e">>
S_false == <<"f", "a", "l", "s", "e">>

Digits == <<"0", "1", "2", "3", "4", "5", "6", "7", "8", "9">>

IsDigit(c) == \E d \in 1..10 : Digits[d] = c

DigitValue(c) == (CHOOSE d \in 1..10 : Digits[d] = c) - 1

\* str(n) for a natural number n
RECURSIVE Decimal(_)
Decimal(n) ==
    IF n < 10 THEN <<Digits[n + 1]>>
    ELSE Decimal(n \div 10) \o <<Digits[(n % 10) + 1]>>

\* int(digits)
RECURSIVE NatOf(_)
NatOf(digits) ==
    IF digits = <<>> THEN 0
    ELSE 10 * NatOf(SubSeq(digits, 1, Len(digits) - 1))
           + DigitValue(digits[Len(digits)])

\* the longest run of digits of s from position i on
RECURSIVE DigitRun(_, _)
DigitRun(s, i) ==
    IF i <= Len(s) /\ IsDigit(s[i]) THEN <<s[i]>> \o DigitRun(s, i + 1) ELSE <<>>

\* the body of a JSON string literal for the characters of s
RECURSIVE Escape(_)
Escape(s) ==
    IF s = <<>> THEN <<>>
    ELSE (CASE Head(s) = "\"" -> <<"\\", "\"">>
            [] Head(s) = "\\" -> <<"\\", "\\">>
            [] Head(s) = "\n" -> <<"\\", "n">>
            [] Head(s) = "\t" -> <<"\\", "t">>
            [] OTHER -> <<Head(s)>>) \o Escape(Tail(s))

RECURSIVE Spaces(_)
Spaces(n) == IF n = 0 THEN <<>> ELSE <<" ">> \o Spaces(n - 1)

\* the line break and indentation json.dump(indent=2) writes at a depth
Break(depth) == <<"\n">> \o Spaces(2 * depth)

\* json.dump(value, f, indent=2, ensure_ascii=False): the text written
RECURSIVE Encode(_, _)
RECURSIVE EncodeItems(_, _, _)
RECURSIVE EncodePairs(_, _, _)
EncodeItems(items, depth, i) ==
    Encode(items[i], depth)
      \o (IF i = Len(items) THEN <<>>
          ELSE <<",">> \o Break(depth) \o EncodeItems(items, depth, i + 1))

EncodePairs(pairs, depth, i) ==
    <<"\"">> \o Escape(pairs[i].k) \o <<"\"", ":", " ">>
      \o Encode(pairs[i].val, depth)
      \o (IF i = Len(pairs) THEN <<>>
          ELSE <<",">> \o Break(depth) \o EncodePairs(pairs, depth, i + 1))

Encode(j, depth) ==
    CASE j.t = "null" -> S_null
      [] j.t = "bool" -> (IF j.v THEN S_true ELSE S_false)
      [] j.t = "num" ->
            Decimal(j.v) \o (IF j.frac = <<>> THEN <<>> ELSE <<".">> \o j.frac)
      [] j.t = "str" -> <<"\"">> \o Escape(j.v) \o <<"\"">>
      [] j.t = "list" ->
            IF j.v = <<>> THEN <<"[", "]">>
            ELSE <<"[">> \o Break(depth + 1) \o EncodeItems(j.v, depth + 1, 1)
                   \o Break(depth) \o <<"]">>
      [] j.t = "dict" ->
            IF j.v = <<>> THEN <<"{", "}">>
            ELSE <<"{">> \o Break(depth + 1) \o EncodePairs(j.v, depth + 1, 1)
                   \o Break(depth) \o <<"}">>

\* the result of a parse: the value and the position after it, or a failure
Parsed(value, next) == [ok |-> TRUE, v |-> value, next |-> next]
Failed == [ok |-> FALSE, v |-> [t |-> "null"], next |-> 0]

\* the position of the first character of s from i on that is no white space
RECURSIVE SkipSpace(_, _)
SkipSpace(s, i) ==
    IF i <= Len(s) /\ s[i] \in {" ", "\n", "\t"} THEN SkipSpace(s, i + 1) ELSE i

\* s holds the characters of word from position i on
Holds(s, i, word) ==
    /\ i + Len(word) - 1 <= Len(s)
    /\ SubSeq(s, i, i + Len(word) - 1) = word

\* a string literal whose opening quote is before position i
RECURSIVE ParseString(_, _, _)
ParseString(s, i, acc) ==
    IF i > Len(s) THEN Failed
    ELSE CASE s[i] = "\"" -> Parsed([t |-> "str", v |-> acc], i + 1)
           [] s[i] = "\\" ->
                 IF i + 1 > Len(s) THEN Failed
                 ELSE CASE s[i + 1] = "\"" -> ParseString(s, i + 2, Append(acc, "\""))
                        [] s[i + 1] = "\\" -> ParseString(s, i + 2, Append(acc, "\\"))
                        [] s[i + 1] = "n" -> ParseString(s, i + 2, Append(acc, "\n"))
                        [] s[i + 1] = "t" -> ParseString(s, i + 2, Append(acc, "\t"))
                        [] OTHER -> Failed
           [] s[i] \in {"\n", "\t"} -> Failed
           [] OTHER -> ParseString(s, i + 1, Append(acc, s[i]))

\* a number whose first digit is at position i
ParseNumber(s, i) ==
    LET whole == DigitRun(s, i)
        j == i + Len(whole)
    IN  IF j <= Len(s) /\ s[j] = "."
        THEN LET frac == DigitRun(s, j + 1)
             IN  IF frac = <<>> THEN Failed
                 ELSE Parsed([t |-> "num", v |-> NatOf(whole), frac |-> frac],
                             j + 1 + Len(frac))
        ELSE Parsed([t |-> "num", v |-> NatOf(whole), frac |-> <<>>], j)

RECURSIVE ParseValue(_, _)
RECURSIVE ParseItems(_, _, _)
RECURSIVE ParsePairs(_, _, _)
\* the items of a list after its first bracket, acc being those parsed
ParseItems(s, i, acc) ==
    LET item == ParseValue(s, i)
        j == SkipSpace(s, item.next)
    IN  IF ~item.ok \/ j > Len(s) THEN Failed
        ELSE IF s[j] = "," THEN ParseItems(s, j + 1, Append(acc, item.v))
        ELSE IF s[j] = "]" THEN Parsed([t |-> "list", v |-> Append(acc, item.v)], j + 1)
        ELSE Failed

\* the pairs of an object after its first brace, acc being those parsed
ParsePairs(s, i, acc) ==
    LET j == SkipSpace(s, i)
    IN  IF j > Len(s) \/ s[j] # "\"" THEN Failed
        ELSE LET key == ParseString(s, j + 1, <<>>)
                 c == SkipSpace(s, key.next)
             IN  IF ~key.ok \/ c > Len(s) \/ s[c] # ":" THEN Failed
                 ELSE LET val == ParseValue(s, c + 1)
                          e == SkipSpace(s, val.next)
                          pair == [k |-> key.v.v, val |-> val.v]
                      IN  IF ~val.ok \/ e > Len(s) THEN Failed
                          ELSE IF s[e] = "," THEN ParsePairs(s, e + 1, Append(acc, pair))
                          ELSE IF s[e] = "}"
                               THEN Parsed([t |-> "dict", v |-> Append(acc, pair)], e + 1)
                          ELSE Failed

ParseValue(s, i0) ==
    LET i == SkipSpace(s, i0)
    IN  IF i > Len(s) THEN Failed
        ELSE CASE s[i] = "\"" -> ParseString(s, i + 1, <<>>)
               [] IsDigit(s[i]) -> ParseNumber(s, i)
               [] s[i] = "[" ->
                     LET j == SkipSpace(s, i + 1)
                     IN  IF j <= Len(s) /\ s[j] = "]"
                         THEN Parsed([t |-> "list", v |-> <<>>], j + 1)
                         ELSE ParseItems(s, j, <<>>)
               [] s[i] = "{" ->
                     LET j == SkipSpace(s, i + 1)
                     IN  IF j <= Len(s) /\ s[j] = "}"
                         THEN Parsed([t |-> "dict", v |-> <<>>], j + 1)
                         ELSE ParsePairs(s, j, <<>>)
               [] Holds(s, i, S_null) -> Parsed([t |-> "null"], i + 4)
               [] Holds(s, i, S_true) -> Parsed([t |-> "bool", v |-> TRUE], i + 4)
               [] Holds(s, i, S_false) -> Parsed([t |-> "bool", v |-> FALSE], i + 5)
               [] OTHER -> Failed

\* json.load: the value of the whole text, or a failure (JSONDecodeError)
Loads(s) ==
    LET r == ParseValue(s, 1)
    IN  IF r.ok /\ SkipSpace(s, r.next) > Len(s) THEN r ELSE Failed

\* payload.get(key, default) on a decoded object: the value of the last pair
\* with the key
Lookup(d, key, default) ==
    LET at == {i \in 1..Len(d.v) : d.v[i].k = key}
    IN  IF at = {} THEN default
        ELSE d.v[CHOOSE i \in at : \A other \in at : other <= i].val

(***************************************************************************)
(* Persistence.  A store st is [memory, file]: the in-memory dictionary    *)
(* and save_file, which exists or not and holds a text.  Writes to the     *)
(* disk succeed.  memory holds lists of entries [text, timestamp], the     *)
(* timestamp a whole number of clock ticks (a float in the source).        *)
(***************************************************************************)
EmptyMemory == [log |-> <<>>, perma |-> <<>>]

NoFile == [exists |-> FALSE, text |-> <<>>]

File(text) == [exists |-> TRUE, text |-> text]

\* an entry of memory as a JSON value, and back
EntryToJSON(e) ==
    [t |-> "dict",
     v |-> <<[k |-> S_text, val |-> [t |-> "str", v |-> e.text]],
             [k |-> S_timestamp,
              val |-> [t |-> "num", v |-> e.timestamp, frac |-> <<"0">>]]>>]

EntryOfJSON(j) ==
    [text |-> Lookup(j, S_text, [t |-> "str", v |-> <<>>]).v,
     timestamp |-> Lookup(j, S_timestamp, [t |-> "num", v |-> 0, frac |-> <<>>]).v]

EntriesToJSON(entries) ==
    [t |-> "list", v |-> [i \in 1..Len(entries) |-> EntryToJSON(entries[i])]]

EntriesOfJSON(j) == [i \in 1..Len(j.v) |-> EntryOfJSON(j.v[i])]

\* the entries the inputs of the model make, and the text json.dump writes
\* for each as an item of log or perma, computed once
KnownEntries ==
    {[text |-> text, timestamp |-> ts] :
        text \in {<<"h", "i", "k", "e">>, <<"h", "i", "k", "e", "s">>,
                  <<"H", "i", "k", "e", " ", "t", "e", "a">>},
        ts \in 0..MaxNow}

EntryTable == [e \in KnownEntries |-> Encode(EntryToJSON(e), 2)]

EncodeEntry(e) ==
    IF e \in KnownEntries THEN EntryTable[e] ELSE Encode(EntryToJSON(e), 2)

\* Encode(EntriesToJSON(entries), 1)
RECURSIVE EncodeEntriesFrom(_, _)
EncodeEntriesFrom(entries, i) ==
    EncodeEntry(entries[i])
      \o (IF i = Len(entries) THEN <<>>
          ELSE <<",">> \o Break(2) \o EncodeEntriesFrom(entries, i + 1))

EncodeEntries(entries) ==
    IF entries = <<>> THEN <<"[", "]">>
    ELSE <<"[">> \o Break(2) \o EncodeEntriesFrom(entries, 1) \o Break(1) \o <<"]">>

\* json.dump(self.memory, f, indent=2, ensure_ascii=False), which is
\* Encode of the dict {log, perma} at depth 0
Dump(mem) ==
    <<"{">> \o Break(1) \o <<"\"">> \o S_log \o <<"\"", ":", " ">>
      \o EncodeEntries(mem.log)
      \o <<",">> \o Break(1) \o <<"\"">> \o S_perma \o <<"\"", ":", " ">>
      \o EncodeEntries(mem.perma)
      \o Break(0) \o <<"}">>

\* the dict json.dump is given
MemoryToJSON(mem) ==
    [t |-> "dict",
     v |-> <<[k |-> S_log, val |-> EntriesToJSON(mem.log)],
             [k |-> S_perma, val |-> EntriesToJSON(mem.perma)]>>]

save_memory(st) == [st EXCEPT !.file = File(Dump(st.memory))]

\* setup_memory reading both lists from the key "log"
setup_memory_one_key(st) ==
    IF st.file.exists /\ st.file.text # <<>>
    THEN LET payload == Loads(st.file.text)
         IN  IF ~payload.ok
             THEN [st |-> save_memory([st EXCEPT !.memory = EmptyMemory]), raises |-> ""]
             ELSE IF payload.v.t # "dict"
             THEN [st |-> st, raises |-> "AttributeError"]
             ELSE [st |-> [st EXCEPT !.memory =
                             [log |-> EntriesOfJSON(
                                         Lookup(payload.v, S_log, [t |-> "list", v |-> <<>>])),
                              perma |-> EntriesOfJSON(
                                         Lookup(payload.v, S_log, [t |-> "list", v |-> <<>>]))]],
                   raises |-> ""]
    ELSE [st |-> save_memory([st EXCEPT !.memory = EmptyMemory]), raises |-> ""]

\* KimikoCore.setup_memory: the store afterwards, and the exception raised
\* if any (.get on a decoded value that is no dict)
setup_memory(st) ==
    IF st.file.exists /\ st.file.text # <<>>
    THEN LET payload == Loads(st.file.text)
         IN  IF ~payload.ok
             THEN [st |-> save_memory([st EXCEPT !.memory = EmptyMemory]), raises |-> ""]
             ELSE IF payload.v.t # "dict"
             THEN [st |-> st, raises |-> "AttributeError"]
             ELSE [st |-> [st EXCEPT !.memory =
                             [log |-> EntriesOfJSON(
                                         Lookup(payload.v, S_log, [t |-> "list", v |-> <<>>])),
                              perma |-> EntriesOfJSON(
                                         Lookup(payload.v, S_perma, [t |-> "list", v |-> <<>>]))]],
                   raises |-> ""]
    ELSE [st |-> save_memory([st EXCEPT !.memory = EmptyMemory]), raises |-> ""]

(***************************************************************************)
(* Memory helpers.                                                         *)
(***************************************************************************)
Entry(text, ts) == [text |-> text, timestamp |-> ts]

Unexpired(entry, t) == t - entry.timestamp < short_term_lifetime

\* cleanup_memory keeping an entry until its age exceeds short_term_lifetime
cleanup_memory_late(st, t) ==
    [st EXCEPT !.memory.log =
        SelectSeq(st.memory.log, LAMBDA e : t - e.timestamp <= short_term_lifetime)]

\* KimikoCore.cleanup_memory at time t (it does not save)
cleanup_memory(st, t) ==
    [st EXCEPT !.memory.log = SelectSeq(st.memory.log, LAMBDA e : Unexpired(e, t))]

\* the loop of promote_to_perma over the entries of log, from the i-th on
RECURSIVE PromoteFrom(_, _, _, _)
PromoteFrom(keyword, log, perma, i) ==
    IF i > Len(log) THEN perma
    ELSE IF related_to(keyword, log[i].text) /\ ~In(log[i], perma)
         THEN PromoteFrom(keyword, log, Append(perma, log[i]), i + 1)
         ELSE PromoteFrom(keyword, log, perma, i + 1)

\* promote_to_perma without the test "entry not in perma"
promote_to_perma_unguarded(st, keyword) ==
    save_memory([st EXCEPT !.memory.perma =
        @ \o SelectSeq(st.memory.log, LAMBDA e : related_to(keyword, e.text))])

\* KimikoCore.promote_to_perma
promote_to_perma(st, keyword) ==
    save_memory([st EXCEPT !.memory.perma =
                    PromoteFrom(keyword, st.memory.log, st.memory.perma, 1)])

\* KimikoCore.add_memory at time t
add_memory(st, text, t) ==
    IF Strip(text) = <<>> THEN st
    ELSE save_memory([st EXCEPT !.memory.log = Append(@, Entry(Strip(text), t))])

Texts(entries) == [i \in 1..Len(entries) |-> entries[i].text]

NoRecentMemories == <<"(no recent memories)">>

\* the value recall_context returns on a memory that cleanup has been through
RecallText(mem, max_recent, max_perma) ==
    LET recent == Texts(LastN(mem.log, max_recent))
        perma == Texts(LastN(mem.perma, max_perma))
        combined == SelectSeq(perma \o recent, LAMBDA x : x # <<>>)
    IN  IF combined # <<>> THEN JoinLines(combined) ELSE NoRecentMemories

\* KimikoCore.recall_context at time t: the store afterwards and the text
recall_context(st, max_recent, max_perma, t) ==
    LET after == cleanup_memory(st, t)
    IN  [st |-> after, text |-> RecallText(after.memory, max_recent, max_perma)]

(***************************************************************************)
(* The completion endpoint.  A response is what urlopen and json.loads     *)
(* make of one call: an exception, or a decoded JSON value.  A JSON value  *)
(* is [t |-> "null"], [t |-> "str", v |-> characters], [t |-> "list",      *)
(* v |-> a sequence of values] or [t |-> "obj", v |-> a function from the  *)
(* keys present to values].                                                *)
(***************************************************************************)
JNull == [t |-> "null"]
JStr(chars) == [t |-> "str", v |-> chars]
JList(items) == [t |-> "list", v |-> items]
JObj(fields) == [t |-> "obj", v |-> fields]
JEmptyObj == [t |-> "obj", v |-> <<>>]

S_ok == <<"o", "k">>
S_hi == <<"h", "i">>

Responses ==
    [URLError |-> [raises |-> "URLError"],
     TimeoutError |-> [raises |-> "TimeoutError"],
     BadJSON |-> [raises |-> "JSONDecodeError"],
     NotObject |-> [raises |-> "", data |-> JList(<<>>)],
     NoChoices |-> [raises |-> "", data |-> JEmptyObj],
     ChoiceNotObject |-> [raises |-> "", data |-> JObj([choices |-> JList(<<JStr(S_hi)>>)])],
     MessageNotObject |->
         [raises |-> "",
          data |-> JObj([choices |-> JList(<<JObj([message |-> JStr(S_hi)])>>)])],
     Content |->
         [raises |-> "",
          data |-> JObj([choices |->
                     JList(<<JObj([message |-> JObj([content |-> JStr(S_ok)])])>>)])]]

ResponseIds == DOMAIN Responses

\* an except clause that leaves TimeoutError out
Caught_without_timeout == {"URLError", "JSONDecodeError", "OSError", "ValueError"}

\* the exceptions named by the except clause of send
Caught == {"URLError", "TimeoutError", "JSONDecodeError", "OSError", "ValueError"}

\* d.get(key, default) on a JSON object
Get(obj, key, default) == IF key \in DOMAIN obj.v THEN obj.v[key] ELSE default

\* the truth value Python gives a decoded JSON value
Truthy(j) ==
    CASE j.t = "null" -> FALSE
      [] j.t = "str" -> j.v # <<>>
      [] j.t = "list" -> j.v # <<>>
      [] j.t = "obj" -> DOMAIN j.v # {}

\* a or b
Or(a, b) == IF Truthy(a) THEN a ELSE b

\* the value of a reply as a message content
AsContent(j) ==
    CASE j.t = "str" -> j.v
      [] j.t = "null" -> PyNone
      [] OTHER -> <<"<json ", j.t, ">">>

\* lines 194-201 of send on decoded data: the reply, or the exception raised
\* by .get on a value that is no dict
ExtractReply(data) ==
    IF data.t # "obj" THEN [raises |-> "AttributeError", reply |-> <<>>]
    ELSE LET choices == Get(data, "choices", JNull)
         IN  IF ~(choices.t = "list" /\ choices.v # <<>>)
             THEN [raises |-> "", reply |-> <<>>]
             ELSE LET choice == choices.v[1]
                  IN  IF choice.t # "obj"
                      THEN [raises |-> "AttributeError", reply |-> <<>>]
                      ELSE LET message == Get(choice, "message", JEmptyObj)
                           IN  IF message.t # "obj"
                               THEN [raises |-> "AttributeError", reply |-> <<>>]
                               ELSE [raises |-> "",
                                     reply |-> AsContent(
                                        Or(Get(message, "content", JStr(<<>>)),
                                        Or(Get(choice, "text", JStr(<<>>)),
                                        Or(Get(data, "response", JStr(<<>>)),
                                           Get(data, "assistant", JStr(<<>>))))))]

ErrorReply(exc) == <<"(Error contacting model: ", exc, ")">>

\* the try statement of send: the reply, or the exception that leaves send
Completion(resp) ==
    IF resp.raises # ""
    THEN IF resp.raises \in Caught
         THEN [raises |-> "", reply |-> ErrorReply(resp.raises)]
         ELSE [raises |-> resp.raises, reply |-> <<>>]
    ELSE ExtractReply(resp.data)

(***************************************************************************)
(* String literals of the source and of the inputs.                        *)
(***************************************************************************)
S_hike == <<"h", "i", "k", "e">>
S_Hike_tea == <<"H", "i", "k", "e", " ", "t", "e", "a">>
S_hikes == <<"h", "i", "k", "e", "s">>
S_tea == <<"t", "e", "a">>
S_blank == <<" ">>
S_show == <<"/", "s", "h", "o", "w">>
S_forget == <<"/", "f", "o", "r", "g", "e", "t">>
S_clear == <<"/", "c", "l", "e", "a", "r">>
S_mode == <<"/", "m", "o", "d", "e">>
S_reset == <<"/", "r", "e", "s", "e", "t">>
S_all == <<"a", "l", "l">>
S_WORK_padded == <<" ", "W", "O", "R", "K", " ">>
S_WORK == <<"W", "O", "R", "K">>
S_work_led == <<" ", "w", "o", "r", "k">>

sp == <<" ">>

(***************************************************************************)
(* The core.  A core c is the record of the fields of a KimikoCore:        *)
(* memory, word_counts, current_mode, conversations, with the content of   *)
(* save_file beside them.                                                  *)
(***************************************************************************)
\* the texts send is given
SendInputs == {S_hike, S_Hike_tea}

\* every token a send can count
Vocabulary == UNION {{normalize(u)[i] : i \in 1..Len(normalize(u))} : u \in SendInputs}

\* the number of times token w occurs in tokens
RECURSIVE Occurrences(_, _)
Occurrences(w, tokens) ==
    IF tokens = <<>> THEN 0
    ELSE (IF Head(tokens) = w THEN 1 ELSE 0) + Occurrences(w, Tail(tokens))

\* set_mode without the strip()
set_mode_unstripped(c, mode_name) ==
    LET normalized == Lower(mode_name)
    IN  IF ~IsModeName(normalized)
        THEN [core |-> c, raises |-> "ValueError"]
        ELSE [core |-> [c EXCEPT !.current_mode = ModeOf(normalized)], raises |-> ""]

\* KimikoCore.set_mode: the core afterwards, or the exception raised
set_mode(c, mode_name) ==
    LET normalized == Strip(Lower(mode_name))
    IN  IF ~IsModeName(normalized)
        THEN [core |-> c, raises |-> "ValueError"]
        ELSE [core |-> [c EXCEPT !.current_mode = ModeOf(normalized)], raises |-> ""]

\* reset_conversation resetting the current mode whatever mode it is given
reset_conversation_current(c, mode) ==
    LET given == IF mode = PyNone \/ mode = <<>> THEN ModeChars[c.current_mode] ELSE mode
    IN  IF ~IsModeName(Lower(given))
        THEN [core |-> c, raises |-> "ValueError"]
        ELSE [core |-> [c EXCEPT !.conversations[c.current_mode] =
                           <<Message("system", ROLE_CONTEXTS[c.current_mode])>>],
              raises |-> ""]

\* KimikoCore.reset_conversation; mode is PyNone when no argument is given
reset_conversation(c, mode) ==
    LET given == IF mode = PyNone \/ mode = <<>> THEN ModeChars[c.current_mode] ELSE mode
        name == Lower(given)
    IN  IF ~IsModeName(name)
        THEN [core |-> c, raises |-> "ValueError"]
        ELSE [core |-> [c EXCEPT !.conversations[ModeOf(name)] =
                           <<Message("system", ROLE_CONTEXTS[ModeOf(name)])>>],
              raises |-> ""]

\* the loop of _build_payload promoting only past the threshold
RECURSIVE RecordTokens_past(_, _, _)
RecordTokens_past(c, tokens, i) ==
    IF i > Len(tokens) THEN c
    ELSE LET word == tokens[i]
             counted == [c EXCEPT !.word_counts[word] = @ + 1]
         IN  IF counted.word_counts[word] > promotion_threshold
             THEN RecordTokens_past(promote_to_perma(counted, word), tokens, i + 1)
             ELSE RecordTokens_past(counted, tokens, i + 1)

\* the loop of _build_payload counting a token once for an input, however
\* often the input holds it
RECURSIVE RecordTokens_distinct(_, _, _)
RecordTokens_distinct(c, tokens, i) ==
    IF i > Len(tokens) THEN c
    ELSE LET word == tokens[i]
             counted == IF \E j \in 1..(i - 1) : tokens[j] = word THEN c
                        ELSE [c EXCEPT !.word_counts[word] = @ + 1]
         IN  IF counted.word_counts[word] >= promotion_threshold
             THEN RecordTokens_distinct(promote_to_perma(counted, word), tokens, i + 1)
             ELSE RecordTokens_distinct(counted, tokens, i + 1)

\* the loop of _build_payload over the tokens of the input, from the i-th on
RECURSIVE RecordTokens(_, _, _)
RecordTokens(c, tokens, i) ==
    IF i > Len(tokens) THEN c
    ELSE LET word == tokens[i]
             counted == [c EXCEPT !.word_counts[word] = @ + 1]
         IN  IF counted.word_counts[word] >= promotion_threshold
             THEN RecordTokens(promote_to_perma(counted, word), tokens, i + 1)
             ELSE RecordTokens(counted, tokens, i + 1)

MemoryContext(text) == <<"Memory context:\n">> \o text

\* _build_payload storing the windowed history in place of the full one
build_payload_truncating(c, user_input, t) ==
    LET mode == c.current_mode
        added == add_memory(c, user_input, t)
        counted == RecordTokens(added, normalize(user_input), 1)
        recalled == recall_context(counted, DefaultMaxRecent, DefaultMaxPerma, t)
        convo == c.conversations[mode]
                   \o <<Message("system", MemoryContext(recalled.text)),
                        Message("user", user_input)>>
    IN  [core |-> [recalled.st EXCEPT !.conversations[mode] =
                      LastN(convo, max_history_window)],
         messages |-> LastN(convo, max_history_window)]

\* KimikoCore._build_payload at time t on a core whose config has
\* max_history_window = window: the core afterwards and the messages of the
\* payload
build_payload_windowed(c, user_input, t, window) ==
    LET mode == c.current_mode
        added == add_memory(c, user_input, t)
        counted == RecordTokens(added, normalize(user_input), 1)
        recalled == recall_context(counted, DefaultMaxRecent, DefaultMaxPerma, t)
        convo == c.conversations[mode]
                   \o <<Message("system", MemoryContext(recalled.text)),
                        Message("user", user_input)>>
    IN  [core |-> [recalled.st EXCEPT !.conversations[mode] = convo],
         messages |-> LastN(convo, window)]

\* KimikoCore._build_payload on the core of the model
build_payload(c, user_input, t) ==
    build_payload_windowed(c, user_input, t, max_history_window)

\* send appending the reply to the history of the default mode
send_reply_to_default(c, user_input, resp, t) ==
    LET built == build_payload(c, user_input, t)
        out == Completion(resp)
    IN  IF out.raises # ""
        THEN [core |-> built.core, raises |-> out.raises, result |-> PyNone,
              messages |-> built.messages]
        ELSE [core |-> save_memory([built.core EXCEPT !.conversations["companion"] =
                                      Append(@, Message("assistant", out.reply))]),
              raises |-> "", result |-> out.reply, messages |-> built.messages]

\* KimikoCore.send at time t, the endpoint answering resp: the core
\* afterwards, the reply returned or the exception raised, and the messages
\* that were sent
send(c, user_input, resp, t) ==
    LET built == build_payload(c, user_input, t)
        mode == built.core.current_mode
        out == Completion(resp)
    IN  IF out.raises # ""
        THEN [core |-> built.core, raises |-> out.raises, result |-> PyNone,
              messages |-> built.messages]
        ELSE [core |-> save_memory([built.core EXCEPT !.conversations[mode] =
                                      Append(@, Message("assistant", out.reply))]),
              raises |-> "", result |-> out.reply, messages |-> built.messages]

(***************************************************************************)
(* Command processing.                                                     *)
(***************************************************************************)
\* the lines f"{i}. {m['text']}" of /show, joined
Listing(entries) ==
    JoinLines([i \in 1..Len(entries) |-> <<ToString(i), ". ">> \o entries[i].text])

Returned(c, text) == [core |-> c, raises |-> "", result |-> text]

show(c, parts) ==
    IF Len(parts) < 2 THEN Returned(c, <<"Usage: /show perma | /show log">>)
    ELSE LET target == Lower(Strip(parts[2]))
         IN  IF target = S_perma
             THEN IF c.memory.perma = <<>>
                  THEN Returned(c, <<"No permanent memories.">>)
                  ELSE Returned(c, Listing(c.memory.perma))
             ELSE IF target = S_log
             THEN IF c.memory.log = <<>>
                  THEN Returned(c, <<"No short-term logs.">>)
                  ELSE Returned(c, Listing(c.memory.log))
             ELSE Returned(c, <<"Unknown target for /show">>)

\* /forget removing the entries that hold the word itself only
forget_exact(c, parts) ==
    IF Len(parts) < 2 THEN Returned(c, <<"Usage: /forget <word>">>)
    ELSE LET word == Lower(Strip(parts[2]))
             before == Len(c.memory.perma)
             kept == SelectSeq(c.memory.perma,
                               LAMBDA m : ~In(word, normalize(m.text)))
         IN  Returned(save_memory([c EXCEPT !.memory.perma = kept]),
                      <<"Forgot ", ToString(before - Len(kept)),
                        " perma entries related to '">> \o word \o <<"'.">>)

forget(c, parts) ==
    IF Len(parts) < 2 THEN Returned(c, <<"Usage: /forget <word>">>)
    ELSE LET word == Lower(Strip(parts[2]))
             before == Len(c.memory.perma)
             kept == SelectSeq(c.memory.perma, LAMBDA m : ~related_to(word, m.text))
         IN  Returned(save_memory([c EXCEPT !.memory.perma = kept]),
                      <<"Forgot ", ToString(before - Len(kept)),
                        " perma entries related to '">> \o word \o <<"'.">>)

\* /clear emptying the log on the target perma as it does on all
clear_perma_as_all(c, parts) ==
    IF Len(parts) < 2 THEN Returned(c, <<"Usage: /clear perma | /clear all">>)
    ELSE LET target == Lower(Strip(parts[2]))
         IN  IF target \in {S_perma, S_all}
             THEN Returned(save_memory([c EXCEPT !.memory = EmptyMemory]),
                           <<"Cleared all memory.">>)
             ELSE Returned(c, <<"Unknown target for /clear">>)

clear(c, parts) ==
    IF Len(parts) < 2 THEN Returned(c, <<"Usage: /clear perma | /clear all">>)
    ELSE LET target == Lower(Strip(parts[2]))
         IN  IF target = S_perma
             THEN Returned(save_memory([c EXCEPT !.memory.perma = <<>>]),
                           <<"Cleared permanent memory.">>)
             ELSE IF target = S_all
             THEN Returned(save_memory([c EXCEPT !.memory = EmptyMemory]),
                           <<"Cleared all memory.">>)
             ELSE Returned(c, <<"Unknown target for /clear">>)

mode_command(c, parts) ==
    IF Len(parts) < 2
    THEN Returned(c, <<"Current mode: ">> \o ModeChars[c.current_mode])
    ELSE LET set == set_mode(c, Strip(parts[2]))
         IN  IF set.raises # ""
             THEN [core |-> set.core, raises |-> set.raises, result |-> PyNone]
             ELSE Returned(set.core,
                           <<"Mode changed to '">> \o ModeChars[set.core.current_mode]
                              \o <<"'.">>)

reset_command(c) ==
    LET done == reset_conversation(c, PyNone)
    IN  IF done.raises # ""
        THEN [core |-> done.core, raises |-> done.raises, result |-> PyNone]
        ELSE Returned(done.core,
                      <<"Conversation reset for ">> \o ModeChars[done.core.current_mode]
                         \o <<" mode.">>)

\* handle_command taking an input that is no command into the history
handle_command_echo(c, cmd) ==
    LET parts == SplitOnce(cmd)
    IN  IF parts = <<>> THEN Returned(c, PyNone)
        ELSE LET action == Lower(parts[1])
             IN  CASE action = S_show -> show(c, parts)
                   [] action = S_forget -> forget(c, parts)
                   [] action = S_clear -> clear(c, parts)
                   [] action = S_mode -> mode_command(c, parts)
                   [] action = S_reset -> reset_command(c)
                   [] OTHER ->
                        Returned([c EXCEPT !.conversations[c.current_mode] =
                                     Append(@, Message("user", cmd))], PyNone)

\* KimikoCore.handle_command: the core afterwards and the text returned,
\* PyNone for an input that is no command, or the exception raised
handle_command(c, cmd) ==
    LET parts == SplitOnce(cmd)
    IN  IF parts = <<>> THEN Returned(c, PyNone)
        ELSE LET action == Lower(parts[1])
             IN  CASE action = S_show -> show(c, parts)
                   [] action = S_forget -> forget(c, parts)
                   [] action = S_clear -> clear(c, parts)
                   [] action = S_mode -> mode_command(c, parts)
                   [] action = S_reset -> reset_command(c)
                   [] OTHER -> Returned(c, PyNone)

(***************************************************************************)
(* The state machine: a KimikoCore and the calls made on it, one at a      *)
(* time.  last names the latest call that changed the core: the operation, *)
(* its argument and the exception that left it, if any.  A call that       *)
(* changes nothing leaves last as it is.                                   *)
(***************************************************************************)
Core ==
    [memory |-> memory, file |-> file, word_counts |-> word_counts,
     current_mode |-> current_mode, conversations |-> conversations]

Call(op, arg, raises) == [op |-> op, arg |-> arg, raises |-> raises]

\* the worker threads the desktop may start
MaxThreads == 2

Threads == 1..MaxThreads

\* a list object: the history of a mode, and which of the lists that
\* conversations[mode] has been in turn
ListOf(mode, id) == [mode |-> mode, id |-> id]

NoList == ListOf("companion", -1)

\* a thread that has not been started
Unborn ==
    [pc |-> "unborn", text |-> <<>>, convo |-> NoList, context |-> <<>>,
     rebound |-> NoList, reply |-> <<>>]

\* a core with no second core beside it and no desktop over it
Headless ==
    /\ shadow = EmptyMemory
    /\ threads = [w \in Threads |-> Unborn]
    /\ response_queue = <<>>
    /\ dialog_label = <<>>
    /\ is_talking = FALSE
    /\ stop_timers = 0
    /\ lists = [m \in Modes |-> 0]

\* the variables of the core take the fields of core c
Assign(c) ==
    /\ memory' = c.memory
    /\ file' = c.file
    /\ word_counts' = c.word_counts
    /\ current_mode' = c.current_mode
    /\ conversations' = c.conversations

\* the variables take the fields of core c, after the call named
Becomes(c, op, arg, raises) ==
    \E after \in {c} :
        /\ Assign(after)
        /\ last' = IF after = Core THEN last ELSE Call(op, arg, raises)
        /\ UNCHANGED <<shadow, desktop>>

\* construction with no save_file on the disk
Init ==
    /\ now = 0
    /\ LET made == setup_memory([memory |-> EmptyMemory, file |-> NoFile])
       IN  memory = made.st.memory /\ file = made.st.file
    /\ word_counts = [w \in Vocabulary |-> 0]
    /\ current_mode = "companion"
    /\ conversations = InitialConversations
    /\ last = Call("init", <<>>, "")
    /\ Headless

\* time.time() moves on
Tick ==
    /\ now < MaxNow
    /\ now' = now + 1
    /\ last' = Call("tick", <<>>, "")
    /\ UNCHANGED <<memory, file, word_counts, current_mode, conversations>>
    /\ UNCHANGED <<shadow, desktop>>

AddMemoryInputs == {S_hikes, S_blank}

AddMemory ==
    \E text \in AddMemoryInputs :
        /\ Len(memory.log) < MaxLog
        /\ Becomes(add_memory(Core, text, now), "add_memory", text, "")
        /\ UNCHANGED now

CleanupMemory ==
    /\ Becomes(cleanup_memory(Core, now), "cleanup_memory", <<>>, "")
    /\ UNCHANGED now

PromoteInputs == {S_hike, S_tea}

PromoteToPerma ==
    \E keyword \in PromoteInputs :
        /\ Becomes(promote_to_perma(Core, keyword), "promote_to_perma", keyword, "")
        /\ UNCHANGED now

RecallArgs == 0..MaxRecallArg

RecallContext ==
    \E max_recent \in RecallArgs, max_perma \in RecallArgs :
        /\ Becomes(recall_context(Core, max_recent, max_perma, now).st,
                   "recall_context", <<>>, "")
        /\ UNCHANGED now

SetModeInputs == {S_WORK_padded, ModeChars.companion, S_tea}

SetMode ==
    \E mode_name \in SetModeInputs :
        LET r == set_mode(Core, mode_name)
        IN  /\ Becomes(r.core, "set_mode", mode_name, r.raises)
            /\ UNCHANGED now

ResetInputs == {PyNone, S_WORK, S_work_led}

ResetConversation ==
    \E mode \in ResetInputs :
        LET r == reset_conversation(Core, mode)
        IN  /\ Becomes(r.core, "reset_conversation", mode, r.raises)
            /\ UNCHANGED now

\* the number of messages all histories hold
Stored == Len(conversations.work) + Len(conversations.therapy)
            + Len(conversations.companion)

Send ==
    \E user_input \in SendInputs, id \in ResponseIds :
        LET r == send(Core, user_input, Responses[id], now)
        IN  /\ Stored <= MaxMsgs
            /\ Len(memory.log) < MaxLog
            /\ \A w \in Vocabulary : r.core.word_counts[w] <= MaxCount
            /\ Becomes(r.core, "send", user_input, r.raises)
            /\ UNCHANGED now

Commands ==
    {S_show \o sp \o S_perma, S_forget \o sp \o S_hike,
     S_clear \o sp \o S_perma, S_clear \o sp \o S_all,
     S_mode \o S_WORK_padded, S_mode \o sp \o S_tea, S_reset, S_hike}

HandleCommand ==
    \E cmd \in Commands :
        LET r == handle_command(Core, cmd)
        IN  /\ Becomes(r.core, "handle_command", cmd, r.raises)
            /\ UNCHANGED now

Next ==
    \/ Tick
    \/ AddMemory
    \/ CleanupMemory
    \/ PromoteToPerma
    \/ RecallContext
    \/ SetMode
    \/ ResetConversation
    \/ Send
    \/ HandleCommand

Spec == Init /\ [][Next]_vars

(***************************************************************************)
(* The store across process lifetimes: a KimikoCore is constructed over    *)
(* save_file as an earlier run, or an editor, left it; the memory          *)
(* operations run on it; the process ends and another is started.          *)
(***************************************************************************)
S_quoted == <<"\"", "h", "i", "\"">>

\* save_file before the first construction: absent, of size 0, no JSON, a
\* JSON array, null, an object without the two keys, the file of an earlier
\* run
InitialFiles ==
    {NoFile,
     File(<<>>),
     File(<<"{", "\"", "l", "o", "g">>),
     File(<<"[", "]">>),
     File(S_null),
     File(<<"{", "}">>),
     File(Dump([log |-> <<Entry(S_hikes, 0)>>, perma |-> <<Entry(S_hike, 0)>>]))}

\* before KimikoCore() is called
InitStore ==
    /\ now = 0
    /\ file \in InitialFiles
    /\ memory = EmptyMemory
    /\ word_counts = [w \in Vocabulary |-> 0]
    /\ current_mode = "companion"
    /\ conversations = InitialConversations
    /\ last = Call("new", <<>>, "")
    /\ Headless

\* a core exists: the latest construction did not raise
Alive == last.op # "new" /\ ~(last.op = "setup_memory" /\ last.raises # "")

\* KimikoCore(): __post_init__ on a new object, in a new process
Construct ==
    LET made == setup_memory([memory |-> EmptyMemory, file |-> file])
    IN  /\ memory' = made.st.memory
        /\ file' = made.st.file
        /\ word_counts' = [w \in Vocabulary |-> 0]
        /\ current_mode' = "companion"
        /\ conversations' = InitialConversations
        /\ last' = Call("setup_memory", <<>>, made.raises)
        /\ UNCHANGED <<now, shadow, desktop>>

StoreTexts == {S_hikes, S_quoted}

StoreAdd ==
    \E text \in StoreTexts :
        /\ Alive
        /\ Len(memory.log) < MaxLog
        /\ Becomes(add_memory(Core, text, now), "add_memory", text, "")
        /\ UNCHANGED now

StoreCleanup == Alive /\ CleanupMemory

StorePromote == Alive /\ PromoteToPerma

StoreCommand == Alive /\ HandleCommand

StoreTick == Alive /\ Tick

NextStore ==
    \/ Construct
    \/ StoreAdd
    \/ StoreCleanup
    \/ StorePromote
    \/ StoreCommand
    \/ StoreTick

SpecStore == InitStore /\ [][NextStore]_vars

(***************************************************************************)
(* /forget over words of two letters: a core constructed over a save_file  *)
(* whose perma holds one entry, its text one word, and /forget of a word.  *)
(***************************************************************************)
\* the words are of 1..MaxWordLen letters
MaxWordLen == 5

Letters == {"a", "b"}

Words == UNION {[1..n -> Letters] : n \in 1..MaxWordLen}

InitWords ==
    /\ now = 0
    /\ \E a \in Words :
          LET made == setup_memory(
                         [memory |-> EmptyMemory,
                          file |-> File(Dump([log |-> <<>>,
                                              perma |-> <<Entry(a, 0)>>]))])
          IN  memory = made.st.memory /\ file = made.st.file
    /\ word_counts = [w \in Vocabulary |-> 0]
    /\ current_mode = "companion"
    /\ conversations = InitialConversations
    /\ last = Call("init", <<>>, "")
    /\ Headless

ForgetWord ==
    \E b \in Words :
        LET r == handle_command(Core, S_forget \o sp \o b)
        IN  /\ Becomes(r.core, "handle_command", S_forget \o sp \o b, r.raises)
            /\ UNCHANGED now

NextWords == ForgetWord

SpecWords == InitWords /\ [][NextWords]_vars

(***************************************************************************)
(* Two cores side by side.  The core of the source promotes a token on     *)
(* every mention from promotion_threshold on; the second core, of which    *)
(* shadow is the memory, promotes a token once, on the mention that brings *)
(* its count to promotion_threshold.  Both are given the same sends and    *)
(* commands at the same times, and so have the same word_counts.           *)
(***************************************************************************)
\* a token is mentioned MaxPairCount times at most
MaxPairCount == 4

\* the loop of _build_payload promoting a token once only
RECURSIVE RecordTokens_once(_, _, _)
RecordTokens_once(c, tokens, i) ==
    IF i > Len(tokens) THEN c
    ELSE LET word == tokens[i]
             counted == [c EXCEPT !.word_counts[word] = @ + 1]
         IN  IF counted.word_counts[word] = promotion_threshold
             THEN RecordTokens_once(promote_to_perma(counted, word), tokens, i + 1)
             ELSE RecordTokens_once(counted, tokens, i + 1)

\* the second core
Second == [Core EXCEPT !.memory = shadow]

\* the memory of the second core after _build_payload
remember_once(c, user_input, t) ==
    LET added == add_memory(c, user_input, t)
        counted == RecordTokens_once(added, normalize(user_input), 1)
    IN  recall_context(counted, DefaultMaxRecent, DefaultMaxPerma, t).st.memory

PairSend ==
    \E user_input \in SendInputs :
        LET r == send(Core, user_input, Responses.Content, now)
        IN  /\ \A w \in Vocabulary : r.core.word_counts[w] <= MaxPairCount
            /\ Assign(r.core)
            /\ last' = Call("send", user_input, r.raises)
            /\ shadow' = remember_once(Second, user_input, now)
            /\ UNCHANGED <<now, desktop>>

PairCommands ==
    {S_forget \o sp \o S_hike, S_forget \o sp \o S_tea,
     S_clear \o sp \o S_perma, S_clear \o sp \o S_all}

PairCommand ==
    \E cmd \in PairCommands :
        LET r == handle_command(Core, cmd)
        IN  /\ Assign(r.core)
            /\ last' = Call("handle_command", cmd, r.raises)
            /\ shadow' = handle_command(Second, cmd).core.memory
            /\ UNCHANGED <<now, desktop>>

PairTick == Tick

NextPair ==
    \/ PairSend
    \/ PairCommand
    \/ PairTick

SpecPair == Init /\ [][NextPair]_vars

(***************************************************************************)
(* The desktop front-end: KimikoDesktopGhost over one KimikoCore.  The Tk  *)
(* thread runs on_submit, the menu callbacks, _poll_queue and the          *)
(* _stop_talking callbacks, one at a time; every on_submit of a text that  *)
(* is no command starts a thread that runs _get_reply.  Nothing in the     *)
(* source holds a lock, so a thread is interleaved with the Tk thread and  *)
(* with the other threads between any two statements; the model yields     *)
(* between the steps of send named below.  A thread is at one of           *)
(*   started     run by Thread.start, before line 159 of the core          *)
(*   remembered  past lines 159-168: mode and convo read, memory updated   *)
(*   built       past lines 169-177: the two messages appended to convo    *)
(*   calling     past line 181: convo read again, the request under way    *)
(*   returned    send has appended the reply, saved and returned           *)
(*   raised      an exception has left send, and with it the thread        *)
(*   put         the reply is on response_queue                            *)
(*   shown       _poll_queue has taken the reply off the queue             *)
(***************************************************************************)
\* the i-th thread is given the i-th text
SubmitTexts == [w \in Threads |-> IF w = 1 THEN S_hike ELSE S_Hike_tea]

\* the commands typed into the entry
SubmitCommands == {S_show \o sp \o S_perma}

\* the modes picked in the menu
MenuModes == {"work"}

\* what the endpoint answers a thread
DesktopResponses == {"NotObject", "Content"}

\* conversations[mode] is replaced MaxLists times at most
MaxLists == 1

\* root.after has MaxTimers callbacks of on_submit pending at most
MaxTimers == 1

\* the thread Thread.start runs next
NextThread == CHOOSE w \in Threads :
                 /\ threads[w].pc = "unborn"
                 /\ \A v \in 1..(w - 1) : threads[v].pc # "unborn"

\* the list object is the one conversations holds for its mode
IsStored(list) == lists[list.mode] = list.id

\* list.append(message) for each of the messages; a list that conversations
\* holds no more is out of reach of the core
AppendTo(list, messages) ==
    IF IsStored(list)
    THEN [conversations EXCEPT ![list.mode] = @ \o messages]
    ELSE conversations

\* thread w has gone into send and has not left it
InSend(w) == threads[w].pc \in {"remembered", "built", "calling"}

\* KimikoDesktopGhost.on_submit
OnSubmit ==
    \E text \in SubmitCommands
                  \cup {SubmitTexts[w] : w \in {v \in Threads : threads[v].pc = "unborn"
                                                                 /\ v = NextThread}} :
        LET r == handle_command(Core, Strip(text))
        IN  /\ Assign(r.core)
            /\ last' = Call("handle_command", Strip(text), r.raises)
            /\ is_talking' = TRUE
            /\ IF r.result # PyNone
               THEN /\ stop_timers < MaxTimers
                    /\ dialog_label' = r.result
                    /\ stop_timers' = stop_timers + 1
                    /\ UNCHANGED threads
               ELSE /\ dialog_label' = <<"Kimiko is thinking...">>
                    /\ threads' = [threads EXCEPT ![NextThread] =
                                      [Unborn EXCEPT !.pc = "started", !.text = text]]
                    /\ UNCHANGED stop_timers
            /\ UNCHANGED <<now, shadow, response_queue, lists>>

\* KimikoDesktopGhost._set_mode, from the menu
SetModeMenu ==
    \E mode \in MenuModes :
        LET r == set_mode(Core, ModeChars[mode])
        IN  /\ Assign(r.core)
            /\ last' = Call("set_mode", ModeChars[mode], r.raises)
            /\ dialog_label' = <<"Mode changed to ", mode, ".">>
            /\ UNCHANGED <<now, shadow, threads, response_queue, is_talking,
                           stop_timers, lists>>

\* KimikoDesktopGhost._reset_conversation, from the menu: conversations
\* holds a new list for the current mode
ResetMenu ==
    LET r == reset_conversation(Core, PyNone)
    IN  /\ lists[current_mode] < MaxLists
        /\ Assign(r.core)
        /\ last' = Call("reset_conversation", PyNone, r.raises)
        /\ lists' = [lists EXCEPT ![current_mode] = @ + 1]
        /\ dialog_label' = <<"Conversation reset.">>
        /\ UNCHANGED <<now, shadow, threads, response_queue, is_talking, stop_timers>>

\* the core and the text recall_context returns, after lines 162-168 of
\* _build_payload on core c at time t
remember(c, user_input, t) ==
    LET added == add_memory(c, user_input, t)
        counted == RecordTokens(added, normalize(user_input), 1)
    IN  recall_context(counted, DefaultMaxRecent, DefaultMaxPerma, t)

\* lines 159-168 of _build_payload in thread w
Remember(w) ==
    /\ threads[w].pc = "started"
    /\ \E recalled \in {remember(Core, threads[w].text, now)} :
          /\ Assign(recalled.st)
          /\ threads' = [threads EXCEPT
                            ![w].pc = "remembered",
                            ![w].convo = ListOf(current_mode, lists[current_mode]),
                            ![w].context = recalled.text]
    /\ UNCHANGED <<now, last, shadow, response_queue, dialog_label, is_talking,
                   stop_timers, lists>>

\* lines 169-177 of _build_payload in thread w
AppendUser(w) ==
    /\ threads[w].pc = "remembered"
    /\ conversations' = AppendTo(threads[w].convo,
                                 <<Message("system", MemoryContext(threads[w].context)),
                                   Message("user", threads[w].text)>>)
    /\ threads' = [threads EXCEPT ![w].pc = "built"]
    /\ UNCHANGED <<now, memory, file, word_counts, current_mode, last, shadow,
                   response_queue, dialog_label, is_talking, stop_timers, lists>>

\* line 181 of send in thread w
Rebind(w) ==
    /\ threads[w].pc = "built"
    /\ threads' = [threads EXCEPT ![w].pc = "calling",
                                  ![w].rebound = ListOf(current_mode, lists[current_mode])]
    /\ UNCHANGED <<now, memory, file, word_counts, current_mode, conversations, last,
                   shadow, response_queue, dialog_label, is_talking, stop_timers, lists>>

\* lines 184-207 of send in thread w: the endpoint answers, or the timeout
\* of urlopen runs out
Respond(w) ==
    \E id \in DesktopResponses :
        LET out == Completion(Responses[id])
        IN  /\ threads[w].pc = "calling"
            /\ IF out.raises # ""
               THEN /\ threads' = [threads EXCEPT ![w].pc = "raised"]
                    /\ UNCHANGED <<conversations, file>>
               ELSE /\ conversations' = AppendTo(threads[w].rebound,
                                                 <<Message("assistant", out.reply)>>)
                    /\ file' = save_memory(Core).file
                    /\ threads' = [threads EXCEPT ![w].pc = "returned",
                                                  ![w].reply = out.reply]
            /\ UNCHANGED <<now, memory, word_counts, current_mode, last, shadow,
                           response_queue, dialog_label, is_talking, stop_timers, lists>>

\* line 496 of _get_reply in thread w
Put(w) ==
    /\ threads[w].pc = "returned"
    /\ response_queue' = Append(response_queue, threads[w].reply)
    /\ threads' = [threads EXCEPT ![w].pc = "put"]
    /\ UNCHANGED <<now, memory, file, word_counts, current_mode, conversations, last,
                   shadow, dialog_label, is_talking, stop_timers, lists>>

\* KimikoDesktopGhost._poll_queue, which root.after runs again and again
PollQueue ==
    /\ dialog_label' = IF response_queue = <<>> THEN dialog_label
                       ELSE response_queue[Len(response_queue)]
    /\ stop_timers' = stop_timers + Len(response_queue)
    /\ response_queue' = <<>>
    /\ threads' = [w \in Threads |->
                     IF threads[w].pc = "put" THEN [threads[w] EXCEPT !.pc = "shown"]
                     ELSE threads[w]]
    /\ UNCHANGED <<now, memory, file, word_counts, current_mode, conversations, last,
                   shadow, is_talking, lists>>

\* KimikoDesktopGhost._stop_talking, run by root.after
StopTalking ==
    /\ stop_timers > 0
    /\ stop_timers' = stop_timers - 1
    /\ is_talking' = FALSE
    /\ UNCHANGED <<now, memory, file, word_counts, current_mode, conversations, last,
                   shadow, threads, response_queue, dialog_label, lists>>

NextDesktop ==
    \/ OnSubmit
    \/ SetModeMenu
    \/ ResetMenu
    \/ \E w \in Threads : Remember(w)
    \/ \E w \in Threads : AppendUser(w)
    \/ \E w \in Threads : Rebind(w)
    \/ \E w \in Threads : Respond(w)
    \/ \E w \in Threads : Put(w)
    \/ PollQueue
    \/ StopTalking

SpecDesktop == Init /\ [][NextDesktop]_vars

(***************************************************************************)
(* The desktop with the menu left alone: texts and commands are submitted, *)
(* the threads run and the timers fire.  A thread that Thread.start has    *)
(* started is scheduled until it ends, and a callback that root.after has  *)
(* pending is run by the Tk main loop: weak fairness of the steps of each  *)
(* thread, of _poll_queue and of _stop_talking.  The endpoint answers, or  *)
(* the timeout of urlopen ends the call.                                   *)
(***************************************************************************)
NextReply ==
    \/ OnSubmit
    \/ \E w \in Threads : Remember(w)
    \/ \E w \in Threads : AppendUser(w)
    \/ \E w \in Threads : Rebind(w)
    \/ \E w \in Threads : Respond(w)
    \/ \E w \in Threads : Put(w)
    \/ PollQueue
    \/ StopTalking

\* weak fairness of Remember(w), written out: Remember(w) is enabled, and
\* changes vars, exactly when thread w is at "started"
FairRemember(w) ==
    []<>(threads[w].pc # "started") \/ []<><<Remember(w)>>_vars

FairReply ==
    /\ \A w \in Threads :
          /\ FairRemember(w)
          /\ WF_vars(AppendUser(w))
          /\ WF_vars(Rebind(w))
          /\ WF_vars(Respond(w))
          /\ WF_vars(Put(w))
    /\ WF_vars(PollQueue)
    /\ WF_vars(StopTalking)

SpecReply == Init /\ [][NextReply]_vars /\ FairReply

(***************************************************************************)
(* Properties.  A property of an operation is stated either of the         *)
(* operation applied in the current state, for every input of the model    *)
(* (an invariant, checked in every reachable state), or of the steps in    *)
(* which the operation ran (a property of the next-state relation).        *)
(***************************************************************************)
\* the elements of a sequence
Range(seq) == {seq[i] : i \in 1..Len(seq)}

\* text.split("\n")
RECURSIVE SplitLines(_)
SplitLines(text) ==
    IF \A i \in 1..Len(text) : text[i] # "\n" THEN <<text>>
    ELSE LET k == CHOOSE i \in 1..Len(text) :
                    text[i] = "\n" /\ \A j \in 1..(i - 1) : text[j] # "\n"
         IN  <<SubSeq(text, 1, k - 1)>> \o SplitLines(SubSeq(text, k + 1, Len(text)))

\* the memory a load of save_file gives
OnDisk == setup_memory([memory |-> EmptyMemory, file |-> file]).st.memory

Expired(entry) == now - entry.timestamp >= short_term_lifetime

\* C1 as stated: recall_context leaves no entry of memory (log or perma)
\* whose age is >= short_term_lifetime in log, and the text of none is a
\* line of the text it returns.
C1_ExpiredAbsentFromText ==
    \A max_recent \in RecallArgs, max_perma \in RecallArgs :
        LET r == recall_context(Core, max_recent, max_perma, now)
        IN  \A e \in Range(memory.log) \cup Range(memory.perma) :
                Expired(e) =>
                    /\ ~In(e, r.st.memory.log)
                    /\ e.text \notin Range(SplitLines(r.text))

\* C1, amended: recall_context leaves no entry whose age is >=
\* short_term_lifetime in log, and every line of the text it returns is the
\* text of an entry of perma or of an entry of log younger than
\* short_term_lifetime (perma entries are recalled whatever their age).
C1_ExpiredDropped ==
    \A max_recent \in RecallArgs, max_perma \in RecallArgs :
        LET r == recall_context(Core, max_recent, max_perma, now)
        IN  /\ \A e \in Range(memory.log) : Expired(e) => ~In(e, r.st.memory.log)
            /\ \A e \in Range(r.st.memory.log) : ~Expired(e) /\ In(e, memory.log)
            /\ \/ r.text = NoRecentMemories
               \/ \A line \in Range(SplitLines(r.text)) :
                     \E e \in Range(memory.perma)
                                \cup {x \in Range(memory.log) : ~Expired(x)} :
                         e.text = line

\* recall_context has just dropped an expired entry (save_file still holds
\* it) while perma holds an expired entry, which the text still shows
C1_Witness ==
    /\ last.op = "recall_context"
    /\ \E e \in Range(OnDisk.log) : Expired(e) /\ ~In(e, memory.log)
    /\ \E e \in Range(memory.perma) : Expired(e)

NoDuplicates(seq) == \A i, j \in 1..Len(seq) : i # j => seq[i] # seq[j]

\* C2: perma never holds two structurally equal entries.
C2_PermaNoDuplicates == NoDuplicates(memory.perma)

\* a send whose two tokens both reached the threshold: the entry promoted
\* for the first was met again, in perma, for the second
C2_Witness ==
    /\ last.op = "send"
    /\ last.arg = S_Hike_tea
    /\ word_counts[S_hike] >= promotion_threshold
    /\ word_counts[S_tea] >= promotion_threshold
    /\ In(Entry(Strip(S_Hike_tea), now), memory.perma)

\* a step in which send(last'.arg) ran
SendStep == last'.op = "send" /\ vars' # vars

\* C3: after send(u), for every token t of u whose count is >=
\* promotion_threshold every entry of log (as it was once u was recorded)
\* related to t is in perma; and with no such token perma is unchanged.
C3_Step ==
    SendStep =>
        LET u == last'.arg
            recorded == add_memory(Core, u, now).memory.log
            tokens == Range(normalize(u))
        IN  /\ \A t \in tokens :
                  word_counts'[t] >= promotion_threshold =>
                      \A e \in Range(recorded) :
                          related_to(t, e.text) => In(e, memory'.perma)
            /\ (\A t \in tokens : word_counts'[t] < promotion_threshold)
                  => memory'.perma = memory.perma

C4_PromoteIdempotent ==
    \A word \in PromoteInputs \cup Vocabulary :
        LET once == promote_to_perma(Core, word)
            twice == promote_to_perma(once, word)
        IN  twice.memory.perma = once.memory.perma

\* promote_to_perma has just appended an entry of log to perma
C4_Witness ==
    /\ last.op = "promote_to_perma"
    /\ memory.perma # <<>>
    /\ In(memory.perma[Len(memory.perma)], memory.log)

\* the last message of a history
Final(history) == history[Len(history)]

TransportFailures == {"URLError", "TimeoutError"}

C6_SendNeverRaises ==
    /\ ~(last.op = "send" /\ last.raises # "")
    /\ \A m \in Modes : Final(conversations[m]).role # "user"

\* C7: set_mode(name) with a name that trims and lower-cases to a mode sets
\* current_mode to it and changes no history; with any other name it raises
\* and changes neither current_mode nor a history.
C7_SetMode ==
    \A name \in SetModeInputs :
        LET r == set_mode(Core, name)
            normalized == Lower(Strip(name))
        IN  IF IsModeName(normalized)
            THEN /\ r.raises = ""
                 /\ r.core.current_mode = ModeOf(normalized)
                 /\ r.core.conversations = conversations
            ELSE /\ r.raises # ""
                 /\ r.core.current_mode = current_mode
                 /\ r.core.conversations = conversations

\* set_mode(" WORK ") has switched to work while the history of companion
\* holds more than its preamble
C7_Witness ==
    /\ last.op = "set_mode"
    /\ last.arg = S_WORK_padded
    /\ last.raises = ""
    /\ current_mode = "work"
    /\ Len(conversations.companion) > 1

Preamble(m) == <<Message("system", ROLE_CONTEXTS[m])>>

\* the name reset_conversation(mode) looks up: the lower-cased argument, or
\* the current mode when none is given
ResetName(mode) == IF mode = PyNone THEN ModeChars[current_mode] ELSE Lower(mode)

\* C8: reset_conversation(mode) on a configured mode (the current one when
\* none is given; a mode is named whatever the case of its letters) leaves
\* its history equal to its preamble alone; on any other name it raises and
\* changes neither a history nor current_mode.
C8_Reset ==
    \A mode \in ResetInputs :
        LET r == reset_conversation(Core, mode)
        IN  IF IsModeName(ResetName(mode))
            THEN /\ r.raises = ""
                 /\ r.core.conversations[ModeOf(ResetName(mode))]
                      = Preamble(ModeOf(ResetName(mode)))
            ELSE /\ r.raises # ""
                 /\ r.core.conversations = conversations
                 /\ r.core.current_mode = current_mode

\* reset_conversation("WORK") has cut the history of work, which is not the
\* current mode, back to its preamble
C8_Witness ==
    /\ last.op = "reset_conversation"
    /\ last.arg = S_WORK
    /\ last.raises = ""
    /\ current_mode = "companion"
    /\ conversations.work = Preamble("work")

\* the leading token of a command, lower-cased
ActionOf(cmd) == IF SplitOnce(cmd) = <<>> THEN <<>> ELSE Lower(SplitOnce(cmd)[1])

\* a step in which reset_conversation ran on mode m, called or by /reset
ResetStepOf(m) ==
    /\ vars' # vars
    /\ \/ /\ last'.op = "reset_conversation"
          /\ IsModeName(ResetName(last'.arg))
          /\ ModeOf(ResetName(last'.arg)) = m
       \/ /\ last'.op = "handle_command"
          /\ ActionOf(last'.arg) = S_reset
          /\ m = current_mode

\* C9: a send changes the history of the current mode only, a
\* reset_conversation that of its mode only, and /show, /forget and /clear
\* change no history.
C9_Step ==
    /\ SendStep =>
          \A m \in Modes \ {current_mode} : conversations'[m] = conversations[m]
    /\ \A m \in Modes :
          ResetStepOf(m) =>
              \A other \in Modes \ {m} : conversations'[other] = conversations[other]
    /\ (/\ last'.op = "handle_command"
        /\ vars' # vars
        /\ ActionOf(last'.arg) \in {S_show, S_forget, S_clear})
          => conversations' = conversations

C9_Isolation == [][C9_Step]_vars

\* a send has run in work while the history of companion holds more than
\* its preamble
C9_Witness ==
    /\ last.op = "send"
    /\ current_mode = "work"
    /\ Len(conversations.work) > 1
    /\ Len(conversations.companion) > 1

IsPrefix(a, b) == Len(a) <= Len(b) /\ SubSeq(b, 1, Len(a)) = a

C10_Begins == \A m \in Modes : IsPrefix(Preamble(m), conversations[m])

C10_Step ==
    /\ \A m \in Modes :
          \/ IsPrefix(conversations[m], conversations'[m])
          \/ ResetStepOf(m) /\ conversations'[m] = Preamble(m)
    /\ (SendStep /\ last'.raises = "") =>
          LET before == conversations[current_mode]
              after == conversations'[current_mode]
              n == Len(before)
          IN  /\ Len(after) = n + 3
              /\ IsPrefix(before, after)
              /\ after[n + 1].role = "system"
              /\ after[n + 2] = Message("user", last'.arg)
              /\ after[n + 3].role = "assistant"

\* C10: every history begins with the preamble of its mode, a history loses
\* messages only by a reset_conversation of its mode, and a send that
\* returns appends exactly three messages (system, user, assistant) to the
\* history of the current mode, whatever max_history_window.
C10_Histories == []C10_Begins /\ [][C10_Step]_vars

\* a send has returned and left a history longer than max_history_window
C10_Witness ==
    /\ last.op = "send"
    /\ last.raises = ""
    /\ Len(conversations[current_mode]) = 4
    /\ Len(conversations[current_mode]) > max_history_window

Min(x, y) == IF x <= y THEN x ELSE y

\* the last k elements of seq, for 0 <= k <= Len(seq)
Suffix(seq, k) == SubSeq(seq, Len(seq) - k + 1, Len(seq))

WindowSizes == 0..MaxWindow

\* C11 as stated: for every max_history_window N >= 0 the messages of the
\* request are the last min(N, length) messages of the history of the
\* current mode as it stands once the user message is appended, so they are
\* at most N.
C11_PayloadWindow ==
    \A u \in SendInputs, N \in WindowSizes :
        LET built == build_payload_windowed(Core, u, now, N)
            history == built.core.conversations[current_mode]
        IN  /\ Final(history) = Message("user", u)
            /\ built.messages = Suffix(history, Min(N, Len(history)))
            /\ Len(built.messages) <= N

\* save_file holds an object with the two lists
WellFormed(f) ==
    /\ f.exists
    /\ f.text # <<>>
    /\ LET payload == Loads(f.text)
       IN  /\ payload.ok
           /\ payload.v.t = "dict"
           /\ Lookup(payload.v, S_log, [t |-> "null"]).t = "list"
           /\ Lookup(payload.v, S_perma, [t |-> "null"]).t = "list"

\* C12 as stated: setup_memory never raises, and on a file that is absent,
\* empty, unparsable or of another schema than {log: list, perma: list} it
\* leaves memory empty and the empty structure in the file.
C12_LoadNeverRaises ==
    last.op = "setup_memory" =>
        /\ last.raises = ""
        /\ \/ memory = EmptyMemory /\ file = File(Dump(EmptyMemory))
           \/ WellFormed(file)

MutatingOps ==
    {"add_memory", "cleanup_memory", "recall_context", "promote_to_perma", "send"}

\* C13 as stated: once add_memory, cleanup_memory, recall_context,
\* promote_to_perma, send, /forget or /clear has returned, save_file holds
\* what json.dump writes for memory.
C13_FileEqualsMemory ==
    (/\ last.raises = ""
     /\ \/ last.op \in MutatingOps
        \/ last.op = "handle_command" /\ ActionOf(last.arg) \in {S_forget, S_clear})
        => file = File(Dump(memory))

\* C14: save_memory followed by setup_memory in a new process gives a memory
\* whose log and perma equal, entry for entry and in order, those saved; the
\* text in between is what json.dump(indent=2) writes for memory.
C14_RoundTrip ==
    Alive =>
        LET saved == save_memory([memory |-> memory, file |-> file])
            loaded == setup_memory([memory |-> EmptyMemory, file |-> saved.file])
        IN  /\ saved.file = File(Encode(MemoryToJSON(memory), 0))
            /\ loaded.raises = ""
            /\ loaded.st.memory.log = memory.log
            /\ loaded.st.memory.perma = memory.perma

\* a core has been constructed over the file a run before it saved: log
\* holds a text with quotation marks added in that run, perma is not empty
C14_Witness ==
    /\ last.op = "setup_memory"
    /\ last.raises = ""
    /\ In(Entry(S_quoted, 1), memory.log)
    /\ memory.perma # <<>>
    /\ file = File(Dump(memory))

CommandNames == {S_show, S_forget, S_clear, S_mode, S_reset}

\* C15: handle_command appends to no history (a history afterwards is the
\* one before or, after /reset, its first message), and on an input that is
\* blank or whose leading token is no command name it returns None and
\* leaves memory, save_file, the token counts, current_mode and the
\* histories as they are.
C15_CommandFrame ==
    \A cmd \in Commands \cup {<<>>, S_blank} :
        LET r == handle_command(Core, cmd)
        IN  /\ \A m \in Modes : IsPrefix(r.core.conversations[m], conversations[m])
            /\ ActionOf(cmd) \notin CommandNames =>
                  /\ r.raises = ""
                  /\ r.result = PyNone
                  /\ r.core = Core

\* /forget or /clear has changed memory while a history holds the messages
\* of a send
C15_Witness ==
    /\ last.op = "handle_command"
    /\ ActionOf(last.arg) \in {S_forget, S_clear}
    /\ \E m \in Modes : Len(conversations[m]) > 1

\* C16 as stated: on every input whose leading token is a command name
\* handle_command raises nothing and returns a string.
C16_CommandsReturnText ==
    \A cmd \in Commands :
        ActionOf(cmd) \in CommandNames =>
            LET r == handle_command(Core, cmd)
            IN  r.raises = "" /\ r.result # PyNone

\* a is b with some elements left out
RECURSIVE IsSubsequence(_, _)
IsSubsequence(a, b) ==
    IF a = <<>> THEN TRUE
    ELSE IF b = <<>> THEN FALSE
    ELSE IF Head(a) = Head(b) THEN IsSubsequence(Tail(a), Tail(b))
    ELSE IsSubsequence(a, Tail(b))

ForgetWords == {S_hike, S_tea}

\* C17: after "/forget w" no entry of perma is related_to w, the entries of
\* perma are entries it held before, in their order, the count in the text
\* returned is the number of entries removed, and log is as it was.
C17_Forget ==
    \A w \in ForgetWords :
        LET r == handle_command(Core, S_forget \o sp \o w)
            kept == r.core.memory.perma
        IN  /\ r.raises = ""
            /\ \A e \in Range(kept) : ~related_to(w, e.text)
            /\ IsSubsequence(kept, memory.perma)
            /\ r.result[2] = ToString(Len(memory.perma) - Len(kept))
            /\ r.core.memory.log = memory.log

\* "/forget hike" has emptied perma and left the entry in log
C17_Witness ==
    /\ last.op = "handle_command"
    /\ ActionOf(last.arg) = S_forget
    /\ memory.perma = <<>>
    /\ memory.log # <<>>

S_hike_hike == S_hike \o sp \o S_hike

\* send of an input that holds a token twice
C18_Counted ==
    LET counted == send(Core, S_hike_hike, Responses.Content, now).core.word_counts
    IN  \A w \in Vocabulary :
            counted[w] = word_counts[w] + Occurrences(w, normalize(S_hike_hike))

C18_Step ==
    \A w \in Vocabulary :
        /\ word_counts'[w] >= word_counts[w]
        /\ SendStep =>
              word_counts'[w] = word_counts[w] + Occurrences(w, normalize(last'.arg))

\* C18: no step lowers the count of a token, and send(u) raises the count of
\* each token by the number of times normalize(u) holds it.
C18_CountsMonotone == []C18_Counted /\ [][C18_Step]_vars

\* "/clear all" has emptied memory and the count of "hike" is still at the
\* threshold
C18_Witness ==
    /\ last.op = "handle_command"
    /\ ActionOf(last.arg) = S_clear
    /\ memory = EmptyMemory
    /\ word_counts[S_hike] >= promotion_threshold

\* C19 as stated: similar(a, a) for every word a that is not empty, and
\* similar(a, b) = similar(b, a) for all words a and b.
C19_SimilarSymmetric ==
    \A i \in 1..Len(memory.perma) :
        LET a == memory.perma[i].text
        IN  /\ similar(a, a)
            /\ \A b \in Words : similar(a, b) = similar(b, a)

\* C20 as stated: recall_context(max_recent, max_perma) returns the texts of
\* the last min(max_perma, .) entries of perma, then those of the last
\* min(max_recent, .) unexpired entries of log, one a line, and the
\* placeholder exactly when there is no such text.
C20_RecallBounded ==
    \A max_recent \in RecallArgs, max_perma \in RecallArgs :
        LET r == recall_context(Core, max_recent, max_perma, now)
            live == SelectSeq(memory.log, LAMBDA e : ~Expired(e))
            expected ==
                SelectSeq(
                    Texts(Suffix(memory.perma, Min(max_perma, Len(memory.perma))))
                      \o Texts(Suffix(live, Min(max_recent, Len(live)))),
                    LAMBDA x : x # <<>>)
        IN  r.text = IF expected = <<>> THEN NoRecentMemories ELSE JoinLines(expected)

\* the entries an operation has appended to perma
Archived(before, after) ==
    {after.perma[i] : i \in (Len(before.perma) + 1)..Len(after.perma)}

\* C21 as stated: no operation appends to perma an entry that has expired at
\* the moment it is appended: not promote_to_perma called on the core, and
\* not the promotion step of send.
C21_NeverArchivesExpired ==
    /\ \A keyword \in PromoteInputs :
          \A e \in Archived(memory, promote_to_perma(Core, keyword).memory) :
              ~Expired(e)
    /\ \A user_input \in SendInputs :
          \A e \in Archived(memory, build_payload(Core, user_input, now).core.memory) :
              ~Expired(e)

\* C21, the part on send alone
C21_SendNeverArchivesExpired ==
    \A user_input \in SendInputs :
        \A e \in Archived(memory, build_payload(Core, user_input, now).core.memory) :
            ~Expired(e)

\* a field of a response body: left out, the empty string, or a value
FieldOptions == {"absent", "empty", "value"}

Field(key, option, value) ==
    IF option = "absent" THEN <<>>
    ELSE key :> JStr(IF option = "empty" THEN <<>> ELSE value)

\* a response body with every one of the four fields and the choices array
\* present or not
Body(choices, content, text, response, assistant) ==
    LET message == IF content = "absent" THEN <<>>
                   ELSE "message" :> JObj(Field("content", content, <<"<content>">>))
        choice == JObj(message @@ Field("text", text, <<"<text>">>))
        array == IF choices = "absent" THEN <<>>
                 ELSE "choices" :> JList(IF choices = "empty" THEN <<>> ELSE <<choice>>)
    IN  JObj(array @@ Field("response", response, <<"<response>">>)
                   @@ Field("assistant", assistant, <<"<assistant>">>))

ReplyBodies ==
    {Body(choices, content, text, response, assistant) :
        choices \in {"absent", "empty", "one"},
        content \in FieldOptions, text \in FieldOptions,
        response \in FieldOptions, assistant \in FieldOptions}

\* the first value that is not empty of: the content of the message of the
\* first choice, the text of the first choice, the response and the
\* assistant of the body; the empty string when there is none
FirstNonEmpty(data) ==
    LET choices == Get(data, "choices", JList(<<>>))
        choice == IF choices.v = <<>> THEN JEmptyObj ELSE choices.v[1]
        values == <<Get(Get(choice, "message", JEmptyObj), "content", JStr(<<>>)).v,
                    Get(choice, "text", JStr(<<>>)).v,
                    Get(data, "response", JStr(<<>>)).v,
                    Get(data, "assistant", JStr(<<>>)).v>>
        present == SelectSeq(values, LAMBDA x : x # <<>>)
    IN  IF present = <<>> THEN <<>> ELSE present[1]

\* C22 as stated: whichever of the four fields and of the choices array a
\* successful response holds, send returns the first of the four values that
\* is not empty, the empty string when there is none, and stores it as the
\* reply.
C22_FirstNonEmptyReply ==
    \A data \in ReplyBodies :
        LET r == send(Core, S_hike, [raises |-> "", data |-> data], now)
        IN  /\ r.raises = ""
            /\ r.result = FirstNonEmpty(data)
            /\ Final(r.core.conversations[current_mode]) =
                   Message("assistant", FirstNonEmpty(data))

\* C22 on the bodies whose choices array holds a choice
C22_FirstNonEmptyOfChoice ==
    \A data \in {d \in ReplyBodies : Truthy(Get(d, "choices", JNull))} :
        Completion([raises |-> "", data |-> data]) =
            [raises |-> "", reply |-> FirstNonEmpty(data)]

\* /clear perma, /clear all, /clear with no target or one that is unknown,
\* and /show with every target
ClearPerma == S_clear \o sp \o S_perma
ClearAll == S_clear \o sp \o S_all
Inert ==
    {S_clear, S_clear \o sp, S_clear \o sp \o S_tea, S_clear \o sp \o S_log,
     S_show, S_show \o sp \o S_perma, S_show \o sp \o S_log, S_show \o sp \o S_tea}

\* C26: /clear perma empties perma and leaves log as it is; /clear all
\* empties perma and log; /clear with a missing or unknown target and every
\* /show leave both as they are; none of them changes the current mode or a
\* history.
C26_ClearAndShowFrame ==
    LET perma == handle_command(Core, ClearPerma).core
        all == handle_command(Core, ClearAll).core
    IN  /\ perma.memory = [log |-> memory.log, perma |-> <<>>]
        /\ all.memory = [log |-> <<>>, perma |-> <<>>]
        /\ \A cmd \in Inert : handle_command(Core, cmd).core.memory = memory
        /\ \A cmd \in Inert \cup {ClearPerma, ClearAll} :
              LET after == handle_command(Core, cmd).core
              IN  /\ after.current_mode = current_mode
                  /\ after.conversations = conversations

\* /clear perma has run on a core that held a log entry and an archived one,
\* in a mode other than the default, after a send
C26_Witness ==
    /\ last = Call("handle_command", ClearPerma, "")
    /\ memory.perma = <<>>
    /\ memory.log # <<>>
    /\ current_mode = "work"
    /\ Len(conversations.work) > 1

\* C25 as stated: the core that promotes on every mention and the core that
\* promotes a token once have equal log and perma, whatever sends, /forget
\* and /clear both have been given.
C25_VariantsEqual == memory.log = shadow.log /\ memory.perma = shadow.perma

\* C25 amended: the two cores have equal log, and perma of the core that
\* promotes once holds no entry that perma of the core that promotes on
\* every mention lacks.
C25_OnceWithinEvery ==
    /\ memory.log = shadow.log
    /\ Range(shadow.perma) \subseteq Range(memory.perma)

\* a send has mentioned a token past promotion_threshold, and the core that
\* promotes once has archived less than the other, but something
C25_Witness ==
    /\ last.op = "send"
    /\ \E w \in Vocabulary : word_counts[w] > promotion_threshold
    /\ shadow.perma # <<>>
    /\ Len(shadow.perma) < Len(memory.perma)

\* C27 as stated: under fair scheduling of the threads and of the timers,
\* every on_submit that starts a thread is followed by the reply of that
\* thread being put on response_queue, taken off it by _poll_queue and
\* displayed, and by is_talking being switched off, whatever the endpoint
\* answers.
C27_ReplyShown ==
    \A w \in Threads :
        (threads[w].pc = "started") ~> (threads[w].pc = "shown" /\ ~is_talking)

\* the threads that are inside send
InFlight == {w \in Threads : InSend(w)}

\* a callback of the Tk thread that calls the core: on_submit calls
\* handle_command, _set_mode calls set_mode, _reset_conversation calls
\* reset_conversation
CoreCallOnTk == OnSubmit \/ SetModeMenu \/ ResetMenu

\* C23 as stated: at most one send is in flight at any time, and no
\* handle_command, set_mode or reset_conversation runs on the Tk thread
\* while a thread is inside send.
C23_Serialized ==
    /\ [](Cardinality(InFlight) <= 1)
    /\ [][CoreCallOnTk => InFlight = {}]_vars

\* C23, the first part: at most one send is in flight at any time
C23_OneSendInFlight == Cardinality(InFlight) <= 1

\* C23, the second part: no core operation runs on the Tk thread while a
\* thread is inside send
C23_NoCoreCallDuringSend == [][CoreCallOnTk => InFlight = {}]_vars

\* the messages of thread w: what it appends for the user, and for the reply
UserMessage(w) == Message("user", threads[w].text)
ReplyMessage(w) == Message("assistant", threads[w].reply)

\* send has returned in thread w
HasReturned(w) == threads[w].pc \in {"returned", "put", "shown"}

\* C24 as stated: once a send has returned, no stored history holds its user
\* message without its reply, and none holds its reply without its user
\* message, however the send was interleaved with set_mode,
\* reset_conversation and the send of another thread.
C24_MessageWithReply ==
    \A w \in Threads :
        HasReturned(w) =>
            \A m \in Modes :
                In(UserMessage(w), conversations[m])
                    <=> In(ReplyMessage(w), conversations[m])

====
